---- MODULE Spec2Model ----
(***************************************************************************)
(* A model of nhs-mesh-cli (src/src/main.rs): the driver `main`, the three *)
(* mailbox operations health_check, handshake and get_message_count, and   *)
(* the token / header construction they use.                               *)
(*                                                                         *)
(* Strings are sequences of byte values, so that format!() is a            *)
(* concatenation and a value can be split again on its delimiters.         *)
(* HMAC-SHA256 is replaced by a keyed 16-bit rolling digest (4 hex         *)
(* characters instead of 64): deterministic, keyed and order-sensitive,    *)
(* which is all the properties below use.                                  *)
(***************************************************************************)
EXTENDS Integers, Sequences, FiniteSets, TLC

VARIABLES
    mailbox,    \* main's two Mailbox values (sender_mailbox, reciever_mailbox)
    now,        \* the wall clock read by Utc::now(), in minutes of one day
    calls,      \* per mailbox: how many calls have been made on it so far
    inflight,   \* per mailbox: the request awaiting its response, if any
    last,       \* the call that returned most recently: its result, and the
                \* level of the entry the caller's match arm logged for it
    panicked,   \* the process has been aborted by a panic
    nsent       \* number of HTTP requests handed to the transport

vars == <<mailbox, now, calls, inflight, last, panicked, nsent>>

----------------------------------------------------------------------------
(* Bounds of the model *)

\* how many distinct values Uuid::new_v4() can return in the model
MaxNonce == 2
\* the minute of the day at which the run starts
StartMinute == 719
\* how many minutes may pass during the run
MaxTicks == 1

----------------------------------------------------------------------------
(* String literals of the program, as bytes *)

\* "NHSMESH"
AUTH_SCHEMA_NAME == <<78,72,83,77,69,83,72>>
\* "TestKey"
SHARED_KEY == <<84,101,115,116,75,101,121>>
\* "https://localhost:8700"
BaseUrl == <<104,116,116,112,115,58,47,47,108,111,99,97,108,104,111,115,116,58,56,55,48,48>>
\* "/health"
HealthPath == <<47,104,101,97,108,116,104>>
\* "/messageexchange/"
MessageExchangePath == <<47,109,101,115,115,97,103,101,101,120,99,104,97,110,103,101,47>>
\* "/inbox"
InboxSuffix == <<47,105,110,98,111,120>>
\* ":" and " "
Colon == <<58>>
Space == <<32>>

\* header names
H_accept == <<97,99,99,101,112,116>>
H_authorization == <<97,117,116,104,111,114,105,122,97,116,105,111,110>>
H_clientversion == <<109,101,120,45,99,108,105,101,110,116,118,101,114,115,105,111,110>>
H_osarchitecture == <<109,101,120,45,111,115,97,114,99,104,105,116,101,99,116,117,114,101>>
H_osname == <<109,101,120,45,111,115,110,97,109,101>>
H_osversion == <<109,101,120,45,111,115,118,101,114,115,105,111,110>>
\* fixed header values
V_accept == <<97,112,112,108,105,99,97,116,105,111,110,47,118,110,100,46,109,101,115,104,46,118,50,43,106,115,111,110>>
V_clientversion == <<65,112,105,68,111,99,115,61,61,48,46,48,46,49>>
V_osarchitecture == <<120,56,54,95,54,52>>
V_osname == <<76,105,110,117,120>>
V_osversion == <<35,52,52,126,49,56,46,48,52,46,50,45,85,98,117,110,116,117>>

----------------------------------------------------------------------------
(* The inputs main reads from its environment *)

Mailboxes == {"sender", "receiver"}

\* mailbox ids: "X1", "X:" (a colon inside), "X\n" (a control character)
Ids == { <<88,49>>, <<88,58>>, <<88,10>> }
\* mailbox passwords: "pw", "qw"
Passwords == { <<112,119>>, <<113,119>> }

\* Mailbox::new
Mailbox(url, id, password) == [url |-> url, id |-> id, password |-> password]

\* values of Uuid::new_v4().to_string(): "a", "b", ...
Uuids == { <<96 + i>> : i \in 1..MaxNonce }

----------------------------------------------------------------------------
(* Token construction: generate_token *)

\* the decimal digits "{}" prints for a small integer
RECURSIVE ToDecimal(_)
ToDecimal(n) ==
    IF n < 10 THEN <<48 + n>> ELSE ToDecimal(n \div 10) \o <<48 + (n % 10)>>

\* two decimal digits, zero padded (%H, %M)
Pad2(n) == <<48 + (n \div 10), 48 + (n % 10)>>

\* Utc::now().format("%Y%m%d%H%M"): the date part is 2024-01-01 throughout
format_timestamp(t) ==
    <<50,48,50,52,48,49,48,49>> \o Pad2(t \div 60) \o Pad2(t % 60)

\* the keyed digest: absorbs the key, then the message, byte by byte
RECURSIVE Absorb(_, _)
Absorb(h, bytes) ==
    IF bytes = <<>> THEN h
    ELSE Absorb((h * 31 + Head(bytes)) % 65536, Tail(bytes))

\* Hmac::<Sha256>::new_from_slice(key); mac.update(msg); mac.finalize()
Hmac(key, msg) == Absorb(Absorb(0, key), msg)

HexDigit(d) == IF d < 10 THEN 48 + d ELSE 87 + d

\* hex::encode: lower-case hex, most significant digit first
hex_encode(h) ==
    << HexDigit(h \div 4096), HexDigit((h \div 256) % 16),
       HexDigit((h \div 16) % 16), HexDigit(h % 16) >>

\* let nonce_count = 0;
nonce_count == 0

\* (mutation) the password and the timestamp change places
hmac_msg_Swapped(mb, nonce, timestamp) ==
    mb.id \o Colon \o nonce \o Colon \o ToDecimal(nonce_count) \o Colon
        \o timestamp \o Colon \o mb.password

\* format!("{}:{}:{}:{}:{}", mailbox.id, nonce, nonce_count, mailbox.password, timestamp)
hmac_msg(mb, nonce, timestamp) ==
    mb.id \o Colon \o nonce \o Colon \o ToDecimal(nonce_count) \o Colon
        \o mb.password \o Colon \o timestamp

\* (mutation) the signed message itself is put into the token
generate_token_SendsMessage(mb, nonce, t) ==
    LET timestamp == format_timestamp(t)
        hash_code == hex_encode(Hmac(SHARED_KEY, hmac_msg(mb, nonce, timestamp)))
    IN  AUTH_SCHEMA_NAME \o Space \o hmac_msg(mb, nonce, timestamp)
            \o Colon \o hash_code

\* generate_token, given the values it draws from Uuid::new_v4() and Utc::now()
generate_token(mb, nonce, t) ==
    LET timestamp == format_timestamp(t)
        hash_code == hex_encode(Hmac(SHARED_KEY, hmac_msg(mb, nonce, timestamp)))
    IN  AUTH_SCHEMA_NAME \o Space \o mb.id \o Colon \o nonce \o Colon
            \o ToDecimal(nonce_count) \o Colon \o timestamp \o Colon \o hash_code

----------------------------------------------------------------------------
(* Header construction: generate_headers *)

Header(name, value) == [name |-> name, value |-> value]

\* generate_headers always returns Ok(headers); the map is a set of entries
generate_headers(mb, nonce, t) ==
    { Header(H_accept, V_accept),
      Header(H_authorization, generate_token(mb, nonce, t)),
      Header(H_clientversion, V_clientversion),
      Header(H_osarchitecture, V_osarchitecture),
      Header(H_osname, V_osname),
      Header(H_osversion, V_osversion) }

\* key.parse::<HeaderName>(): lower-case letters, digits and '-' are accepted
\* (the subset of the token characters the names here are drawn from)
HeaderNameValid(name) ==
    /\ Len(name) > 0
    /\ \A i \in 1..Len(name) :
          \/ name[i] \in 97..122
          \/ name[i] \in 48..57
          \/ name[i] = 45

\* (mutation) the lower bound of the valid bytes is forgotten
HeaderValueValid_NoLowerBound(value) ==
    \A i \in 1..Len(value) : value[i] # 127

\* HeaderValue::from_str: every byte is >= 32 and not DEL, or is a tab
HeaderValueValid(value) ==
    \A i \in 1..Len(value) :
        \/ (value[i] >= 32 /\ value[i] # 127)
        \/ value[i] = 9

----------------------------------------------------------------------------
(* Requests, responses and results *)

\* response bodies: the JSON document {"status":"OK"}, and one that is not JSON
JsonOK == [json |-> TRUE, status |-> "OK"]
NotJson == [json |-> FALSE, status |-> ""]
NoBody == [json |-> FALSE, status |-> "none"]
Bodies == {JsonOK, NotJson}

\* status codes the remote may answer with
Statuses == {200, 204, 304, 404, 500}

\* what send().await yields: a response, or a transport failure
Responses == [arrived : {TRUE}, status : Statuses, body : Bodies]
TransportFailure == [arrived |-> FALSE, status |-> 0, body |-> NoBody]
Outcomes == Responses \cup {TransportFailure}
NoOutcome == [arrived |-> FALSE, status |-> -1, body |-> NoBody]

Request(op, url, headers, nonce, t) ==
    [op |-> op, method |-> "GET", url |-> url, headers |-> headers,
     nonce |-> nonce, time |-> t]
NoRequest == [op |-> "none", method |-> "", url |-> <<>>, headers |-> {},
              nonce |-> <<>>, time |-> -1]

\* Ok(json_body) of health_check
OkValue(body) ==
    [variant |-> "Ok", kind |-> "Value", status |-> 0, payload |-> body]
\* Ok(response) of handshake and get_message_count
OkResponse(resp) ==
    [variant |-> "Ok", kind |-> "Response", status |-> resp.status,
     payload |-> resp.body]
\* a reqwest::Error: of a failed send (no status), of a status, of a decode
ReqwestError(kind, status) ==
    [variant |-> "ReqwestError", kind |-> kind, status |-> status,
     payload |-> NoBody]
\* MailboxError::HeaderValueError, MailboxError::HeaderNameError
HeaderValueError ==
    [variant |-> "HeaderValueError", kind |-> "InvalidHeaderValue",
     status |-> 0, payload |-> NoBody]
HeaderNameError ==
    [variant |-> "HeaderNameError", kind |-> "InvalidHeaderName",
     status |-> 0, payload |-> NoBody]
\* the call did not return: unwrap / unwrap_err panicked
Panic == [variant |-> "panic", kind |-> "panic", status |-> 0, payload |-> NoBody]

\* StatusCode::is_success, is_client_error, is_server_error
is_success(status) == status >= 200 /\ status < 300
is_client_error(status) == status >= 400 /\ status < 500
is_server_error(status) == status >= 500 /\ status < 600

\* Response::error_for_status: Err for 4xx and 5xx, Ok(self) otherwise
error_for_status(resp) ==
    IF is_client_error(resp.status) \/ is_server_error(resp.status)
    THEN ReqwestError("Status", resp.status)
    ELSE OkResponse(resp)

\* Result::unwrap_err: panics on Ok
unwrap_err(r) == IF r.variant = "Ok" THEN Panic ELSE r

\* response.json().await: the body parsed, or a decode error
json(resp) ==
    IF resp.body.json THEN OkValue(resp.body) ELSE ReqwestError("Decode", 0)

----------------------------------------------------------------------------
(* The three operations, split at their await of send() *)

\* health_check, up to send(): the request it sends
health_check_request(mb) ==
    Request("health_check", mb.url \o HealthPath, {}, <<>>, -1)

\* health_check, from the outcome of send().await to its return value
health_check_result(out) ==
    IF ~out.arrived THEN ReqwestError("Request", 0)
    ELSE IF is_success(out.status) THEN json(out)
    ELSE unwrap_err(error_for_status(out))

\* handshake, up to send(): the request it would send
handshake_request(mb, nonce, t) ==
    Request("handshake", mb.url \o MessageExchangePath \o mb.id,
            generate_headers(mb, nonce, t), nonce, t)

\* handshake's loop over the headers: the errors `?` may return, one per
\* entry that fails (the HashMap's iteration order decides which comes first)
handshake_header_errors(headers) ==
    { IF ~HeaderNameValid(h.name) THEN HeaderNameError ELSE HeaderValueError :
        h \in { e \in headers :
                  ~HeaderNameValid(e.name) \/ ~HeaderValueValid(e.value) } }

\* handshake, from the outcome of send().await to its return value
handshake_result(out) ==
    IF ~out.arrived THEN ReqwestError("Request", 0)
    ELSE IF is_success(out.status) THEN OkResponse(out)
    ELSE unwrap_err(error_for_status(out))

\* get_message_count, up to send(): the request it would send
get_message_count_request(mb, nonce, t) ==
    Request("get_message_count",
            mb.url \o MessageExchangePath \o mb.id \o InboxSuffix,
            generate_headers(mb, nonce, t), nonce, t)

\* get_message_count's loop over the headers: the name is unwrap()ed, the
\* value is returned with `?`
get_message_count_header_errors(headers) ==
    { IF ~HeaderNameValid(h.name) THEN Panic ELSE HeaderValueError :
        h \in { e \in headers :
                  ~HeaderNameValid(e.name) \/ ~HeaderValueValid(e.value) } }

\* get_message_count, from the outcome of send().await to its return value
get_message_count_result(out) ==
    IF ~out.arrived THEN ReqwestError("Request", 0)
    ELSE IF is_success(out.status) THEN OkResponse(out)
    ELSE unwrap_err(error_for_status(out))

----------------------------------------------------------------------------
(* State *)

NoResult == [variant |-> "none", kind |-> "none", status |-> 0, payload |-> NoBody]

\* before any call has returned
NoCall == [op |-> "none", mb |-> "none", sent |-> FALSE,
           outcome |-> NoOutcome, result |-> NoResult, logged |-> "none"]

Init ==
    /\ mailbox \in [Mailboxes -> {Mailbox(BaseUrl, id, pw) : id \in Ids, pw \in Passwords}]
    /\ now = StartMinute
    /\ calls = [m \in Mailboxes |-> 0]
    /\ inflight = [m \in Mailboxes |-> NoRequest]
    /\ last = NoCall
    /\ panicked = FALSE
    /\ nsent = 0

\* the calls of main, in program order
Calls ==
    << [op |-> "health_check", mb |-> "sender"],
       [op |-> "health_check", mb |-> "receiver"],
       [op |-> "handshake", mb |-> "sender"],
       [op |-> "handshake", mb |-> "receiver"],
       [op |-> "get_message_count", mb |-> "sender"],
       [op |-> "get_message_count", mb |-> "receiver"] >>

\* the number of calls made so far
NumCalls == calls["sender"] + calls["receiver"]

Idle == \A m \in Mailboxes : inflight[m] = NoRequest

\* main is about to make the call c: every earlier call has returned
AtCall(c) ==
    /\ ~panicked
    /\ Idle
    /\ NumCalls < Len(Calls)
    /\ Calls[NumCalls + 1] = c

\* the arms of main's match on the value a call returned
Returned(c, sent, outcome, result) ==
    /\ last' = [op |-> c.op, mb |-> c.mb, sent |-> sent,
                outcome |-> outcome, result |-> result,
                logged |-> CASE result.variant = "panic" -> "none"
                             [] result.variant = "Ok" -> "info"
                             [] OTHER -> "error"]
    /\ panicked' = (result.variant = "panic")

\* (mutation) one request slot is shared by the two mailboxes
Send_SharedSlot(c, request) ==
    /\ calls' = [calls EXCEPT ![c.mb] = @ + 1]
    /\ inflight' = [m \in Mailboxes |-> request]
    /\ nsent' = nsent + 1
    /\ UNCHANGED <<mailbox, now, last, panicked>>

\* client.get(url).headers(..).send(): the request goes out, the call awaits
Send(c, request) ==
    /\ calls' = [calls EXCEPT ![c.mb] = @ + 1]
    /\ inflight' = [inflight EXCEPT ![c.mb] = request]
    /\ nsent' = nsent + 1
    /\ UNCHANGED <<mailbox, now, last, panicked>>

\* the call returns before any request is sent
ReturnEarly(c, result) ==
    /\ calls' = [calls EXCEPT ![c.mb] = @ + 1]
    /\ Returned(c, FALSE, NoOutcome, result)
    /\ UNCHANGED <<mailbox, now, inflight, nsent>>

\* health_check(&client, m) is called and awaits send()
health_check_call(m) ==
    Send([op |-> "health_check", mb |-> m], health_check_request(mailbox[m]))

\* handshake(&client, m) is called: it returns a header error, or awaits send()
handshake_call(m) ==
    \E nonce \in Uuids :
        LET c == [op |-> "handshake", mb |-> m]
            request == handshake_request(mailbox[m], nonce, now)
            errors == handshake_header_errors(request.headers)
        IN  IF errors # {}
            THEN \E e \in errors : ReturnEarly(c, e)
            ELSE Send(c, request)

\* get_message_count(&client, m) is called: header error, or awaits send()
get_message_count_call(m) ==
    \E nonce \in Uuids :
        LET c == [op |-> "get_message_count", mb |-> m]
            request == get_message_count_request(mailbox[m], nonce, now)
            errors == get_message_count_header_errors(request.headers)
        IN  IF errors # {}
            THEN \E e \in errors : ReturnEarly(c, e)
            ELSE Send(c, request)

\* send().await completes for the call in flight on m, and the call returns
Resume(m, outcome, result) ==
    /\ Returned([op |-> inflight[m].op, mb |-> m], TRUE, outcome, result)
    /\ inflight' = [inflight EXCEPT ![m] = NoRequest]
    /\ UNCHANGED <<mailbox, now, calls, nsent>>

health_check_return ==
    \E m \in Mailboxes, out \in Outcomes :
        /\ ~panicked
        /\ inflight[m].op = "health_check"
        /\ Resume(m, out, health_check_result(out))

handshake_return ==
    \E m \in Mailboxes, out \in Outcomes :
        /\ ~panicked
        /\ inflight[m].op = "handshake"
        /\ Resume(m, out, handshake_result(out))

get_message_count_return ==
    \E m \in Mailboxes, out \in Outcomes :
        /\ ~panicked
        /\ inflight[m].op = "get_message_count"
        /\ Resume(m, out, get_message_count_result(out))

\* a minute passes on the wall clock while the program runs
Tick ==
    /\ ~panicked
    /\ ~(Idle /\ NumCalls = Len(Calls))
    /\ now < StartMinute + MaxTicks
    /\ now' = now + 1
    /\ UNCHANGED <<mailbox, calls, inflight, last, panicked, nsent>>

----------------------------------------------------------------------------
(* main: the six calls, one after the other *)

main_health_check ==
    \E m \in Mailboxes :
        AtCall([op |-> "health_check", mb |-> m]) /\ health_check_call(m)

main_handshake ==
    \E m \in Mailboxes :
        AtCall([op |-> "handshake", mb |-> m]) /\ handshake_call(m)

main_get_message_count ==
    \E m \in Mailboxes :
        AtCall([op |-> "get_message_count", mb |-> m]) /\ get_message_count_call(m)

Next ==
    \/ main_health_check
    \/ main_handshake
    \/ main_get_message_count
    \/ health_check_return
    \/ handshake_return
    \/ get_message_count_return
    \/ Tick

Spec == Init /\ [][Next]_vars

\* the same run under a fair scheduler of main; nothing obliges the remote
\* to answer, and the client is built without a timeout, so the return
\* actions carry no fairness
MainStep == main_health_check \/ main_handshake \/ main_get_message_count

LiveSpec == Spec /\ WF_vars(MainStep)

----------------------------------------------------------------------------
(* The two mailbox sessions run concurrently: each session makes its three
   calls in order, and the sessions interleave freely *)

SessionOps == <<"health_check", "handshake", "get_message_count">>

AtSessionCall(m, op) ==
    /\ ~panicked
    /\ inflight[m] = NoRequest
    /\ calls[m] < Len(SessionOps)
    /\ SessionOps[calls[m] + 1] = op

session_health_check ==
    \E m \in Mailboxes :
        AtSessionCall(m, "health_check") /\ health_check_call(m)

session_handshake ==
    \E m \in Mailboxes :
        AtSessionCall(m, "handshake") /\ handshake_call(m)

session_get_message_count ==
    \E m \in Mailboxes :
        AtSessionCall(m, "get_message_count") /\ get_message_count_call(m)

ConcNext ==
    \/ session_health_check
    \/ session_handshake
    \/ session_get_message_count
    \/ health_check_return
    \/ handshake_return
    \/ get_message_count_return
    \/ Tick

\* the concurrent run, from the mailboxes main builds when the mailbox ids
\* vary and the two passwords are "pw" and "qw"
ConcInit ==
    /\ Init
    /\ mailbox["sender"].password = <<112,119>>
    /\ mailbox["receiver"].password = <<113,119>>

ConcSpec == ConcInit /\ [][ConcNext]_vars

----------------------------------------------------------------------------
(* Vocabulary of the properties *)

AuthOps == {"handshake", "get_message_count"}

\* the fields of a colon-delimited string
RECURSIVE Fields(_, _)
Fields(s, cur) ==
    IF s = <<>> THEN <<cur>>
    ELSE IF Head(s) = 58 THEN <<cur>> \o Fields(Tail(s), <<>>)
    ELSE Fields(Tail(s), Append(cur, Head(s)))

SplitColon(s) == Fields(s, <<>>)

\* fields joined with colons
RECURSIVE JoinColon(_)
JoinColon(fs) ==
    IF Len(fs) = 1 THEN fs[1] ELSE fs[1] \o <<58>> \o JoinColon(Tail(fs))

StartsWith(s, p) == Len(s) >= Len(p) /\ SubSeq(s, 1, Len(p)) = p

EndsWith(s, p) == Len(s) >= Len(p) /\ SubSeq(s, Len(s) - Len(p) + 1, Len(s)) = p

\* s without its first n bytes
Drop(s, n) == SubSeq(s, n + 1, Len(s))

HeaderNames(q) == { h.name : h \in q.headers }

HeaderValueOf(q, name) == (CHOOSE h \in q.headers : h.name = name).value

\* what follows "NHSMESH " in the authorization value of request q
Credentials(q) ==
    Drop(HeaderValueOf(q, H_authorization), Len(AUTH_SCHEMA_NAME) + 1)

\* a byte no header value may hold
ControlChar(b) == (b < 32 /\ b # 9) \/ b = 127

HasControlChar(s) == \E i \in 1..Len(s) : ControlChar(s[i])

IsDigits(s) == \A i \in 1..Len(s) : s[i] \in 48..57

AuthRequests == { inflight[m] : m \in { x \in Mailboxes : inflight[x].op \in AuthOps } }

Finished == Idle /\ ~panicked /\ NumCalls = Len(Calls)

----------------------------------------------------------------------------
(* C1: main makes its six calls in the fixed order sender then receiver for
   health_check, handshake and get_message_count in turn, whatever the
   earlier calls returned; every failure is logged and the run is never
   aborted before the six calls are made. *)
C1_SixCallsInOrder ==
    /\ ~panicked
    /\ calls["receiver"] <= calls["sender"]
    /\ calls["sender"] <= calls["receiver"] + 1
    /\ (last.op # "none" /\ last.result.variant # "Ok" => last.logged = "error")

(* C2: health_check sends one GET to {baseUrl}/health; a 2xx response with a
   JSON body is returned as the payload (status "OK" for {"status":"OK"});
   a non-2xx response is returned as an error carrying its status and its
   body, and never panics. *)
C2_HealthCheckContract ==
    /\ \A m \in Mailboxes :
          inflight[m].op = "health_check" =>
              /\ inflight[m].method = "GET"
              /\ inflight[m].url = mailbox[m].url \o HealthPath
    /\ (last.op = "health_check" /\ last.outcome.arrived) =>
          /\ last.sent
          /\ (is_success(last.outcome.status) /\ last.outcome.body.json) =>
                /\ last.result.variant = "Ok"
                /\ last.result.payload.status = last.outcome.body.status
          /\ ~is_success(last.outcome.status) =>
                /\ last.result.variant = "ReqwestError"
                /\ last.result.status = last.outcome.status
                /\ last.result.payload = last.outcome.body

(* C3: handshake and get_message_count return Ok(response), unparsed,
   exactly when the status is 2xx and a remote error whenever it is not;
   on the same response both return the same value, and they differ only
   in the URL requested. *)
C3_SameContract ==
    /\ \A m \in Mailboxes :
          /\ inflight[m].op = "handshake" =>
                inflight[m].url = mailbox[m].url \o MessageExchangePath \o mailbox[m].id
          /\ inflight[m].op = "get_message_count" =>
                inflight[m].url =
                    mailbox[m].url \o MessageExchangePath \o mailbox[m].id \o InboxSuffix
    /\ (last.op \in AuthOps /\ last.outcome.arrived) =>
          /\ (last.result.variant = "Ok") = is_success(last.outcome.status)
          /\ is_success(last.outcome.status) =>
                last.result = OkResponse(last.outcome)
          /\ ~is_success(last.outcome.status) =>
                /\ last.result.variant = "ReqwestError"
                /\ last.result.status = last.outcome.status
          /\ handshake_result(last.outcome) = get_message_count_result(last.outcome)

(* C5: the headers of every request of handshake and get_message_count hold
   the six fixed names, and the authorization value is the scheme name, one
   space, and exactly five colon-delimited fields. *)
C5_SixHeadersFiveFields ==
    \A q \in AuthRequests :
        /\ HeaderNames(q) = { H_accept, H_authorization, H_clientversion,
                              H_osarchitecture, H_osname, H_osversion }
        /\ StartsWith(HeaderValueOf(q, H_authorization), AUTH_SCHEMA_NAME \o Space)
        /\ Head(Credentials(q)) # 32
        /\ Len(SplitColon(Credentials(q))) = 5

(* C8: every call eventually returns, also when the remote never answers,
   so the run terminates. *)
C8_EveryCallReturns ==
    \A m \in Mailboxes : (inflight[m] # NoRequest) ~> (inflight[m] = NoRequest)

----------------------------------------------------------------------------
(* C4: when the authorization value built for handshake or get_message_count
   is not a valid header value (the mailbox id holds a control character),
   the call returns a header-value error, sends no request, does not panic,
   is logged as an error, and main goes on to its next call. *)
C4_HeaderErrorStaysLocal ==
    [][ \A m \in Mailboxes :
          ( /\ calls'[m] = calls[m] + 1
            /\ SessionOps[calls'[m]] \in AuthOps
            /\ HasControlChar(mailbox[m].id) )
          => /\ last' = [op |-> SessionOps[calls'[m]], mb |-> m, sent |-> FALSE,
                         outcome |-> NoOutcome, result |-> HeaderValueError,
                         logged |-> "error"]
             /\ nsent' = nsent
             /\ inflight' = inflight
             /\ ~panicked'
             /\ (NumCalls' < Len(Calls) => AtCall(Calls[NumCalls + 1])')
      ]_vars

\* handshake on the sender failed on its headers and main has gone on to
\* the receiver's handshake, whose request is in flight
C4_Witness ==
    /\ HasControlChar(mailbox["sender"].id)
    /\ inflight["receiver"].op = "handshake"
    /\ nsent = 3
    /\ ~panicked

\* the token of request q is "NHSMESH " and id:nonce:0:timestamp:signature,
\* read from the right, for the mailbox mb and the values drawn for q
TokenSignedFor(q, mb) ==
    LET v == HeaderValueOf(q, H_authorization)
        fs == SplitColon(Credentials(q))
        n == Len(fs)
    IN  /\ StartsWith(v, AUTH_SCHEMA_NAME \o Space)
        /\ n >= 5
        /\ JoinColon(SubSeq(fs, 1, n - 4)) = mb.id
        /\ fs[n - 3] = q.nonce
        /\ fs[n - 2] = <<48>>
        /\ Len(fs[n - 1]) = 12 /\ IsDigits(fs[n - 1])
        /\ fs[n - 1] = format_timestamp(q.time)
        /\ fs[n] = hex_encode(Hmac(SHARED_KEY,
                      JoinColon(<<mb.id, q.nonce, <<48>>, mb.password, fs[n - 1]>>)))

(* C6: in every token the signature is the keyed digest, under the shared
   key, of mailboxId:nonce:nonceCount:password:timestamp; the token is
   "NHSMESH " and mailboxId:nonce:nonceCount:timestamp:signature with the
   very values that were signed, and nonceCount is 0. *)
C6_TokenIsSignedTuple ==
    \A m \in Mailboxes :
        inflight[m].op \in AuthOps => TokenSignedFor(inflight[m], mailbox[m])

\* a token made after the clock has moved, for an id that holds a colon
C6_Witness ==
    \E m \in Mailboxes :
        /\ inflight[m].op = "get_message_count"
        /\ inflight[m].time = StartMinute + 1
        /\ mailbox[m].id = <<88,58>>
        /\ mailbox[m].password = <<113,119>>

\* the value a call returns for an outcome, by the class of the status
ExpectedResult(op, sent, out) ==
    IF ~sent THEN HeaderValueError
    ELSE IF ~out.arrived THEN ReqwestError("Request", 0)
    ELSE IF out.status \in 200..299
         THEN IF op # "health_check" THEN OkResponse(out)
              ELSE IF out.body.json THEN OkValue(out.body)
              ELSE ReqwestError("Decode", 0)
    ELSE IF out.status \in 400..599 THEN ReqwestError("Status", out.status)
    ELSE Panic

ExpectedUrl(op, mb) ==
    CASE op = "health_check" -> mb.url \o HealthPath
      [] op = "handshake" -> mb.url \o MessageExchangePath \o mb.id
      [] op = "get_message_count" ->
            mb.url \o MessageExchangePath \o mb.id \o InboxSuffix

\* every request and every result is made of the call's own mailbox, draws
\* and response
C9_OwnInputsOnly ==
    /\ \A m \in Mailboxes :
          inflight[m] # NoRequest =>
              /\ calls[m] \in 1..Len(SessionOps)
              /\ inflight[m].op = SessionOps[calls[m]]
              /\ inflight[m].url = ExpectedUrl(inflight[m].op, mailbox[m])
              /\ inflight[m].op \in AuthOps => TokenSignedFor(inflight[m], mailbox[m])
    /\ last.op # "none" =>
          /\ last.sent = ~(last.op \in AuthOps /\ HasControlChar(mailbox[last.mb].id))
          /\ last.result = ExpectedResult(last.op, last.sent, last.outcome)

\* no step changes a Mailbox, and a step of one session leaves the other
\* session's position and request alone
C9_OwnStateOnly ==
    /\ mailbox' = mailbox
    /\ \A m1, m2 \in Mailboxes :
          (m1 # m2 /\ (calls'[m1] # calls[m1] \/ inflight'[m1] # inflight[m1]))
              => (calls'[m2] = calls[m2] /\ inflight'[m2] = inflight[m2])

(* C9: under every interleaving of the two mailboxes' calls no operation
   changes a Mailbox or state of the other session, and each request and
   result depends only on the call's own mailbox, its own nonce and
   timestamp and its own response, as in the sequential run. *)
C9_SessionsIndependent == []C9_OwnInputsOnly /\ [][C9_OwnStateOnly]_vars

\* the two sessions overlap: the sender's last call and the receiver's first
\* are in flight together
C9_Witness ==
    /\ inflight["sender"].op = "get_message_count"
    /\ inflight["receiver"].op = "health_check"
    /\ last.mb = "sender"

\* the request the operation op builds for mb from the given draws
RequestOf(op, mb, nonce, t) ==
    CASE op = "health_check" -> health_check_request(mb)
      [] op = "handshake" -> handshake_request(mb, nonce, t)
      [] op = "get_message_count" -> get_message_count_request(mb, nonce, t)

\* request q without the signature, the last field of its authorization value
WithoutSignature(q) ==
    [ url |-> q.url,
      headers |-> { IF h.name = H_authorization
                    THEN Header(h.name, SubSeq(h.value, 1, Len(h.value) - 4))
                    ELSE h : h \in q.headers } ]

(* C10: nothing sent to the remote holds the password: with any other
   password in its place the URL and every header value of a request stay
   the same outside the digest, and health_check sends no authorization
   header. *)
C10_PasswordOnlyInDigest ==
    \A m \in Mailboxes :
        LET q == inflight[m]
        IN  q # NoRequest =>
              /\ q.op = "health_check" => q.headers = {}
              /\ \A pw \in Passwords :
                    WithoutSignature(q) =
                        WithoutSignature(RequestOf(q.op,
                            [mailbox[m] EXCEPT !.password = pw], q.nonce, q.time))
              /\ \A h \in q.headers :
                    \A i \in 1..Len(SplitColon(h.value)) :
                        SplitColon(h.value)[i] # mailbox[m].password

\* an authenticated request of a mailbox whose password is "qw" is in flight
C10_Witness ==
    \E m \in Mailboxes :
        /\ inflight[m].op = "handshake"
        /\ mailbox[m].password = <<113,119>>
        /\ Len(HeaderValueOf(inflight[m], H_authorization)) > 0

====
